---- MODULE Spec2Model ----
(***************************************************************************)
(* Pretty_LLDB, LLDB_Formatters/linear.py: the summary providers of the    *)
(* linear containers (linked list / stack / queue) and of std::vector.     *)
(*                                                                         *)
(* An SBValue is a record [valid, isPtr, raw, esz, kids]: whether the      *)
(* value is valid, whether its type is a pointer type, its unsigned        *)
(* content, the byte size of the pointee type (0: no pointee type) and its *)
(* structural children, in declaration order, as <<[name, val], ...>>.     *)
(***************************************************************************)
EXTENDS Integers, Sequences, FiniteSets, TLC

VARIABLES
    valobj,          \* the container value handed to the provider
    nNodes,          \* linked chain: number of distinct nodes
    tailLink,        \* linked chain: forward link of the last node
    prevMode,        \* linked chain: shape of the backward links
    badNode,         \* linked chain: node whose payload field is unresolvable
    unreadable,      \* addresses whose memory cannot be read
    max_items,       \* g_config.summary_max_items
    use_colors,      \* should_use_colors()
    pc,              \* position of the provider
    limit,           \* traversal: the max_items argument of traverse
    node,            \* traversal: raw pointer of the current node
    count,           \* traversal: number of links followed
    visited,         \* traversal: set of visited addresses
    values,          \* traversal / vector: rendered values, in order
    doubly_linked,   \* metadata
    cycle_detected,  \* metadata
    truncated,       \* metadata
    vec,             \* vector: the quantities derived by the provider
    result           \* the summary string returned

vars == <<valobj, nNodes, tailLink, prevMode, badNode, unreadable, max_items,
          use_colors, pc, limit, node, count, visited, values, doubly_linked,
          cycle_detected, truncated, vec, result>>

-----------------------------------------------------------------------------
(* Bounds of the model *)

MaxNodes == 5
MaxItemsBound == 10
MaxVecItems == 4

-----------------------------------------------------------------------------
(* SBValue and the helpers of helpers.py *)

None == [valid |-> FALSE, isPtr |-> FALSE, raw |-> 0, esz |-> 0, kids |-> <<>>]
Pointer(raw, esz) == [valid |-> TRUE, isPtr |-> TRUE, raw |-> raw, esz |-> esz, kids |-> <<>>]
Scalar(raw) == [valid |-> TRUE, isPtr |-> FALSE, raw |-> raw, esz |-> 0, kids |-> <<>>]
Struct(kids) == [valid |-> TRUE, isPtr |-> FALSE, raw |-> 0, esz |-> 0, kids |-> kids]
Kid(name, val) == [name |-> name, val |-> val]

\* Python truthiness of an SBValue-or-None: None and invalid values are falsy.
Truthy(v) == v.valid

Min(S) == CHOOSE x \in S : \A y \in S : x <= y

GetChildMemberWithName(v, name) ==
    LET hits == {i \in 1..Len(v.kids) : v.kids[i].name = name}
    IN  IF v.valid /\ hits # {} THEN v.kids[Min(hits)].val ELSE None

get_child_member_by_names(v, names) ==
    LET hits == {j \in 1..Len(names) : Truthy(GetChildMemberWithName(v, names[j]))}
    IN  IF hits = {} THEN None ELSE GetChildMemberWithName(v, names[Min(hits)])

get_raw_pointer(v) == IF v.valid /\ v.isPtr THEN v.raw ELSE 0

startswith_bracket(s) == Len(s) >= 1 /\ SubSeq(s, 1, 1) = "["

Unavailable == "[unavailable]"

Colors_GREEN == "<GREEN>"
Colors_RESET == "<RESET>"
Colors_YELLOW == "<YELLOW>"
Colors_BOLD_CYAN == "<BOLD_CYAN>"
Colors_RED == "<RED>"

RECURSIVE join(_, _)
join(sep, strs) ==
    IF Len(strs) = 0 THEN ""
    ELSE IF Len(strs) = 1 THEN strs[1]
    ELSE strs[1] \o sep \o join(sep, Tail(strs))

-----------------------------------------------------------------------------
(* The inspected linked chain: nNodes distinct nodes, node i at NodeAddr(i), *)
(* node i linked forward to node i+1, the last node linked to tailLink.      *)

Absent == -1
NodeAddr(i) == 16 * i
NodeIndex(a) == a \div 16
IsNode(a) == a > 0 /\ a % 16 = 0 /\ NodeIndex(a) \in 1..nNodes
DanglingAddr == 8

nextField(a) ==
    IF NodeIndex(a) < nNodes THEN NodeAddr(NodeIndex(a) + 1)
    ELSE IF tailLink = Absent THEN Absent
    ELSE IF tailLink = 0 THEN 0
    ELSE NodeAddr(tailLink)

prevField(a) ==
    CASE prevMode = "none" -> Absent
      [] prevMode = "null" -> 0
      [] prevMode = "pred" -> IF NodeIndex(a) > 1 THEN NodeAddr(NodeIndex(a) - 1) ELSE 0

payloadField(a) == IF NodeIndex(a) = badNode THEN Absent ELSE NodeIndex(a)

renderPayload(a) ==
    IF payloadField(a) = Absent THEN Unavailable ELSE ToString(payloadField(a))

-----------------------------------------------------------------------------
(* LinearTraversalStrategy.traverse(head_ptr, max_items)                     *)

\* The loop runs while the node is non-null and fewer than max_items (the
\* argument, here limit) links have been followed.
LoopCondition == node # 0 /\ count < limit

\* A backward link that is present and non-null marks the chain doubly linked.
ObservesBackLink(a) == prevField(a) # Absent /\ prevField(a) # 0

\* After the loop: more nodes existed than the cap allowed.
TruncatedAfterLoop == count = limit /\ node # 0

\* A non-null head whose node cannot be read: an immediate error marker.
TraverseUnreadableHead ==
    /\ pc = "traverse"
    /\ ~IsNode(node)
    /\ values' = <<Unavailable>>
    /\ pc' = "format"
    /\ UNCHANGED <<valobj, nNodes, tailLink, prevMode, badNode, unreadable,
                   max_items, use_colors, limit, node, count, visited, doubly_linked,
                   cycle_detected, truncated, vec, result>>

TraverseEnter ==
    /\ pc = "traverse"
    /\ IsNode(node)
    /\ pc' = "loop"
    /\ UNCHANGED <<valobj, nNodes, tailLink, prevMode, badNode, unreadable,
                   max_items, use_colors, limit, node, count, visited, values,
                   doubly_linked, cycle_detected, truncated, vec, result>>

\* One iteration that finds the node already visited: the cycle stops the loop.
LoopCycle ==
    /\ pc = "loop"
    /\ LoopCondition
    /\ node \in visited
    /\ cycle_detected' = TRUE
    /\ pc' = "format"
    /\ UNCHANGED <<valobj, nNodes, tailLink, prevMode, badNode, unreadable,
                   max_items, use_colors, limit, node, count, visited, values,
                   doubly_linked, truncated, vec, result>>

\* One iteration on a new node: record it, emit its payload, look at its
\* backward link, follow its forward link (an absent one ends the loop).
LoopVisit ==
    /\ pc = "loop"
    /\ LoopCondition
    /\ node \notin visited
    /\ visited' = visited \cup {node}
    /\ values' = Append(values, renderPayload(node))
    /\ doubly_linked' = (doubly_linked \/ ObservesBackLink(node))
    /\ IF nextField(node) = Absent
         THEN /\ pc' = "format"
              /\ UNCHANGED <<node, count>>
         ELSE /\ node' = nextField(node)
              /\ count' = count + 1
              /\ pc' = "loop"
    /\ UNCHANGED <<valobj, nNodes, tailLink, prevMode, badNode, unreadable,
                   max_items, use_colors, limit, cycle_detected, truncated, vec, result>>

\* The loop condition fails: null link reached, or the cap.
LoopExit ==
    /\ pc = "loop"
    /\ ~LoopCondition
    /\ truncated' = TruncatedAfterLoop
    /\ pc' = "format"
    /\ UNCHANGED <<valobj, nNodes, tailLink, prevMode, badNode, unreadable,
                   max_items, use_colors, limit, node, count, visited, values,
                   doubly_linked, cycle_detected, vec, result>>

-----------------------------------------------------------------------------
(* linear_container_summary_provider(valobj, internal_dict)                  *)

HeadNames == <<"head", "m_head", "_head", "top">>
SizeNames == <<"count", "size", "m_size", "_size">>

C_GREEN == IF use_colors THEN Colors_GREEN ELSE ""
C_RESET == IF use_colors THEN Colors_RESET ELSE ""
C_YELLOW == IF use_colors THEN Colors_YELLOW ELSE ""
C_BOLD_CYAN == IF use_colors THEN Colors_BOLD_CYAN ELSE ""
C_RED == IF use_colors THEN Colors_RED ELSE ""

ColorValue(v) ==
    IF startswith_bracket(v) THEN C_RED \o v \o C_RESET
    ELSE C_YELLOW \o v \o C_RESET

ColoredValues(vs) == [i \in 1..Len(vs) |-> ColorValue(vs[i])]

\* separator.strip(): the separator without its leading and trailing blank.
SeparatorCore(dl) == C_BOLD_CYAN \o (IF dl THEN "<->" ELSE "->") \o C_RESET
Separator(dl) == " " \o SeparatorCore(dl) \o " "

ListSizeStr ==
    LET size_member == get_child_member_by_names(valobj, SizeNames)
    IN  IF Truthy(size_member) THEN "size = " \o ToString(size_member.raw) ELSE ""

ListSummaryStr(vs, dl, tr) ==
    join(Separator(dl), ColoredValues(vs))
        \o (IF tr THEN " " \o SeparatorCore(dl) \o " ..." ELSE "")

FormatListSummary(vs, dl, tr) ==
    C_GREEN \o ListSizeStr \o C_RESET \o ", [" \o ListSummaryStr(vs, dl, tr) \o "]"

EmptyListSummary == "size = 0, []"

\* The head member was not found.
ListNoHead ==
    /\ pc = "call"
    /\ ~Truthy(get_child_member_by_names(valobj, HeadNames))
    /\ result' = "Error: Could not find head pointer member."
    /\ pc' = "done"
    /\ UNCHANGED <<valobj, nNodes, tailLink, prevMode, badNode, unreadable,
                   max_items, use_colors, limit, node, count, visited, values,
                   doubly_linked, cycle_detected, truncated, vec>>

\* Mutant of ListNullHead: no early return, the empty value list is formatted
\* like any other.
ListNullHead_NoEarlyReturn ==
    /\ pc = "call"
    /\ Truthy(get_child_member_by_names(valobj, HeadNames))
    /\ get_raw_pointer(get_child_member_by_names(valobj, HeadNames)) = 0
    /\ pc' = "format"
    /\ UNCHANGED <<valobj, nNodes, tailLink, prevMode, badNode, unreadable,
                   max_items, use_colors, limit, node, count, visited, values,
                   doubly_linked, cycle_detected, truncated, vec, result>>

\* The head pointer is null: the empty container.
ListNullHead ==
    /\ pc = "call"
    /\ Truthy(get_child_member_by_names(valobj, HeadNames))
    /\ get_raw_pointer(get_child_member_by_names(valobj, HeadNames)) = 0
    /\ result' = EmptyListSummary
    /\ pc' = "done"
    /\ UNCHANGED <<valobj, nNodes, tailLink, prevMode, badNode, unreadable,
                   max_items, use_colors, limit, node, count, visited, values,
                   doubly_linked, cycle_detected, truncated, vec>>

\* Mutants of ListTraverse: traverse called with a cap other than the
\* configured one.
ListTraverse_CapTooLarge ==
    /\ pc = "call"
    /\ Truthy(get_child_member_by_names(valobj, HeadNames))
    /\ get_raw_pointer(get_child_member_by_names(valobj, HeadNames)) # 0
    /\ node' = get_raw_pointer(get_child_member_by_names(valobj, HeadNames))
    /\ limit' = max_items + 2
    /\ count' = 0
    /\ visited' = {}
    /\ values' = <<>>
    /\ pc' = "traverse"
    /\ UNCHANGED <<valobj, nNodes, tailLink, prevMode, badNode, unreadable,
                   max_items, use_colors, doubly_linked, cycle_detected,
                   truncated, vec, result>>

ListTraverse_CapOffByOne ==
    /\ pc = "call"
    /\ Truthy(get_child_member_by_names(valobj, HeadNames))
    /\ get_raw_pointer(get_child_member_by_names(valobj, HeadNames)) # 0
    /\ node' = get_raw_pointer(get_child_member_by_names(valobj, HeadNames))
    /\ limit' = max_items - 1
    /\ count' = 0
    /\ visited' = {}
    /\ values' = <<>>
    /\ pc' = "traverse"
    /\ UNCHANGED <<valobj, nNodes, tailLink, prevMode, badNode, unreadable,
                   max_items, use_colors, doubly_linked, cycle_detected,
                   truncated, vec, result>>

\* strategy.traverse(head_ptr, g_config.summary_max_items) is entered.
ListTraverse ==
    /\ pc = "call"
    /\ Truthy(get_child_member_by_names(valobj, HeadNames))
    /\ get_raw_pointer(get_child_member_by_names(valobj, HeadNames)) # 0
    /\ node' = get_raw_pointer(get_child_member_by_names(valobj, HeadNames))
    /\ limit' = max_items
    /\ count' = 0
    /\ visited' = {}
    /\ values' = <<>>
    /\ pc' = "traverse"
    /\ UNCHANGED <<valobj, nNodes, tailLink, prevMode, badNode, unreadable,
                   max_items, use_colors, doubly_linked, cycle_detected,
                   truncated, vec, result>>

\* The values and the metadata are formatted into the summary string.
ListFormat ==
    /\ pc = "format"
    /\ result' = FormatListSummary(values, doubly_linked, truncated)
    /\ pc' = "done"
    /\ UNCHANGED <<valobj, nNodes, tailLink, prevMode, badNode, unreadable,
                   max_items, use_colors, limit, node, count, visited, values,
                   doubly_linked, cycle_detected, truncated, vec>>

-----------------------------------------------------------------------------
(* The linked containers the provider is run on *)

HeadChoices ==
    { Kid("head", Pointer(0, 0)),
      Kid("top", Pointer(NodeAddr(1), 0)),
      Kid("m_head", Pointer(NodeAddr(1), 0)),
      Kid("_head", Pointer(DanglingAddr, 0)),
      Kid("root", Pointer(NodeAddr(1), 0)) }

SizeChoices ==
    { Kid("size", Scalar(0)), Kid("count", Scalar(3)), Kid("length", Scalar(3)) }

NoVec == [kind |-> "none"]

InitList ==
    /\ \E h \in HeadChoices, s \in SizeChoices : valobj = Struct(<<h, s>>)
    /\ nNodes \in 1..MaxNodes
    /\ tailLink \in {Absent} \cup (0..nNodes)
    /\ prevMode \in {"none", "null", "pred"}
    /\ badNode \in {0, 1, nNodes}
    /\ unreadable = {}
    /\ max_items \in 0..MaxItemsBound
    /\ use_colors \in BOOLEAN
    /\ pc = "call"
    /\ limit = 0
    /\ node = 0
    /\ count = 0
    /\ visited = {}
    /\ values = <<>>
    /\ doubly_linked = FALSE
    /\ cycle_detected = FALSE
    /\ truncated = FALSE
    /\ vec = NoVec
    /\ result = ""

NextList ==
    \/ ListNoHead
    \/ ListNullHead
    \/ ListTraverse
    \/ TraverseUnreadableHead
    \/ TraverseEnter
    \/ LoopCycle
    \/ LoopVisit
    \/ LoopExit
    \/ ListFormat

Spec == InitList /\ [][NextList]_vars

-----------------------------------------------------------------------------
(* _extract_vector_end_cap_pointer(end_cap_value)                            *)

WrapperNames == <<"__value_", "__first_", "first", "__value", "__first">>

IsPointerValue(v) == Truthy(v) /\ v.isPtr

\* Mutant of ProbeName: the wrapper-named child is not looked into.
ProbeName_DirectOnly(v, name) ==
    LET child == GetChildMemberWithName(v, name)
    IN  IF Truthy(child) /\ child.isPtr THEN child ELSE None

\* The body of the loop over the wrapper names, for one name: the child of
\* that name if it is a pointer, else the first wrapper-named child of that
\* child if that one is a pointer, else nothing.
ProbeName(v, name) ==
    LET child == GetChildMemberWithName(v, name)
        nested == get_child_member_by_names(child, WrapperNames)
    IN  IF ~Truthy(child) THEN None
        ELSE IF child.isPtr THEN child
        ELSE IF IsPointerValue(nested) THEN nested
        ELSE None

\* for name in [...]: the first name, from the k-th on, whose probe succeeds.
RECURSIVE ProbeNamesFrom(_, _)
ProbeNamesFrom(v, k) ==
    IF k > Len(WrapperNames) THEN None
    ELSE IF Truthy(ProbeName(v, WrapperNames[k])) THEN ProbeName(v, WrapperNames[k])
    ELSE ProbeNamesFrom(v, k + 1)

\* for i in range(GetNumChildren()): the first pointer-typed direct child.
ScanChildren(v) ==
    LET hits == {i \in 1..Len(v.kids) : IsPointerValue(v.kids[i].val)}
    IN  IF hits = {} THEN None ELSE v.kids[Min(hits)].val

extract_vector_end_cap_pointer(end_cap_value) ==
    IF ~Truthy(end_cap_value) THEN None
    ELSE IF end_cap_value.isPtr THEN end_cap_value
    ELSE IF Truthy(ProbeNamesFrom(end_cap_value, 1)) THEN ProbeNamesFrom(end_cap_value, 1)
    ELSE ScanChildren(end_cap_value)

-----------------------------------------------------------------------------
(* vector_summary_provider(valobj, internal_dict)                            *)

BeginNames == <<"__begin_", "__begin">>
EndNames == <<"__end_", "__end">>
EndCapNames == <<"__end_cap_", "__end_cap">>

begin_ptr == get_child_member_by_names(valobj, BeginNames)
end_ptr == get_child_member_by_names(valobj, EndNames)
end_cap_raw == get_child_member_by_names(valobj, EndCapNames)
end_cap_ptr == extract_vector_end_cap_pointer(end_cap_raw)

begin_addr == get_raw_pointer(begin_ptr)
end_addr == get_raw_pointer(end_ptr)

\* The byte size of the pointee type of begin, 0 when begin is no pointer or
\* its pointee type is invalid.
element_size == IF begin_ptr.isPtr THEN begin_ptr.esz ELSE 0

\* Mutant of VectorSize: no check that end is not below begin.
VectorSize_NoOrderGuard(b, e, es) ==
    IF b # 0 /\ e # 0 /\ es > 0 THEN (e - b) \div es ELSE 0

VectorSize(b, e, es) ==
    IF b # 0 /\ e # 0 /\ es > 0 /\ e >= b THEN (e - b) \div es ELSE 0

NoCapacity == [known |-> FALSE, value |-> 0]
Capacity(n) == [known |-> TRUE, value |-> n]

\* Mutant of VectorCapacity: no check that the capacity end is not below begin.
VectorCapacity_NoOrderGuard(cap_ptr, b, es) ==
    IF Truthy(cap_ptr) /\ get_raw_pointer(cap_ptr) # 0 /\ es > 0
    THEN Capacity((get_raw_pointer(cap_ptr) - b) \div es)
    ELSE NoCapacity

VectorCapacity(cap_ptr, b, es) ==
    IF Truthy(cap_ptr)
         /\ get_raw_pointer(cap_ptr) # 0 /\ es > 0 /\ get_raw_pointer(cap_ptr) >= b
    THEN Capacity((get_raw_pointer(cap_ptr) - b) \div es)
    ELSE NoCapacity

\* min(size, max_items), as the number of iterations of range(show_count).
ShowCount(size, mx) ==
    LET m == IF size <= mx THEN size ELSE mx
    IN  IF size > 0 /\ m > 0 THEN m ELSE 0

ElementAddr(b, i, es) == b + (i * es)

\* Mutant of VectorTruncated: truncated already at size = max_items.
VectorTruncated_AtCap(size, mx) == size > 0 /\ size >= mx

VectorTruncated(size, mx) == size > 0 /\ size > mx

\* The content of the inspected memory, and its rendering by
\* get_value_summary: a value that cannot be created or read renders as a
\* bracketed marker.
MemValue(a) == (a \div 4) % 100
get_value_summary(a) == IF a \in unreadable THEN Unavailable ELSE ToString(MemValue(a))

ElementAddrs(b, es, size, mx) ==
    [k \in 1..ShowCount(size, mx) |-> ElementAddr(b, k - 1, es)]

ElementValues(addrs) == [k \in 1..Len(addrs) |-> get_value_summary(addrs[k])]

RECURSIVE Hex(_)
HexDigit(d) == SubSeq("0123456789abcdef", d + 1, d + 1)
Hex(n) == IF n < 16 THEN HexDigit(n) ELSE Hex(n \div 16) \o HexDigit(n % 16)

ElementsStr(size, vs, tr) ==
    LET base == IF size = 0 THEN ""
                ELSE IF Len(vs) > 0 THEN join(", ", ColoredValues(vs))
                ELSE C_RED \o Unavailable \o C_RESET
    IN  IF tr THEN (IF base # "" THEN base \o ", ..." ELSE "...") ELSE base

CapacityStr(c) ==
    IF c.known THEN "capacity = " \o ToString(c.value) ELSE "capacity = ?"

DataStr(b) == IF b # 0 THEN "data = 0x" \o Hex(b) ELSE "data = null"

FormatVectorSummary(size, c, b, vs, tr) ==
    C_GREEN \o "size = " \o ToString(size) \o C_RESET \o ", "
        \o C_GREEN \o CapacityStr(c) \o C_RESET \o ", "
        \o C_GREEN \o DataStr(b) \o C_RESET \o ", [" \o ElementsStr(size, vs, tr) \o "]"

VectorError == "Error: Could not locate vector storage pointers."

\* Mutant of VectorNoStorage: a degraded summary instead of the error.
VectorNoStorage_Degraded ==
    /\ pc = "call"
    /\ ~(Truthy(begin_ptr) /\ Truthy(end_ptr))
    /\ vec' = [kind |-> "summary", begin_addr |-> begin_addr,
               end_addr |-> end_addr, element_size |-> element_size,
               size |-> 0, capacity |-> NoCapacity,
               end_cap_ptr |-> end_cap_ptr, addrs |-> <<>>]
    /\ result' = FormatVectorSummary(0, NoCapacity, begin_addr, <<>>, FALSE)
    /\ pc' = "done"
    /\ UNCHANGED <<valobj, nNodes, tailLink, prevMode, badNode, unreadable,
                   max_items, use_colors, limit, node, count, visited, values,
                   doubly_linked, cycle_detected, truncated>>

\* begin or end was not found.
VectorNoStorage ==
    /\ pc = "call"
    /\ ~(Truthy(begin_ptr) /\ Truthy(end_ptr))
    /\ vec' = [kind |-> "error"]
    /\ result' = VectorError
    /\ pc' = "done"
    /\ UNCHANGED <<valobj, nNodes, tailLink, prevMode, badNode, unreadable,
                   max_items, use_colors, limit, node, count, visited, values,
                   doubly_linked, cycle_detected, truncated>>

VectorSummary ==
    /\ pc = "call"
    /\ Truthy(begin_ptr) /\ Truthy(end_ptr)
    /\ LET size == VectorSize(begin_addr, end_addr, element_size)
           capacity == VectorCapacity(end_cap_ptr, begin_addr, element_size)
           addrs == ElementAddrs(begin_addr, element_size, size, max_items)
           vs == ElementValues(addrs)
           tr == VectorTruncated(size, max_items)
       IN  /\ vec' = [kind |-> "summary", begin_addr |-> begin_addr,
                      end_addr |-> end_addr, element_size |-> element_size,
                      size |-> size, capacity |-> capacity,
                      end_cap_ptr |-> end_cap_ptr, addrs |-> addrs]
           /\ values' = vs
           /\ truncated' = tr
           /\ result' = FormatVectorSummary(size, capacity, begin_addr, vs, tr)
    /\ pc' = "done"
    /\ UNCHANGED <<valobj, nNodes, tailLink, prevMode, badNode, unreadable,
                   max_items, use_colors, limit, node, count, visited,
                   doubly_linked, cycle_detected>>

NextVec == VectorNoStorage \/ VectorSummary

-----------------------------------------------------------------------------
(* The vectors the provider is run on *)

VecAddrs == {0, 8, 16, 4096, 4136, 8192, 8224, 8240}
ElemSizes == {0, 4, 8}

\* The member names of the layout: libc++ with and without the trailing
\* underscore, and layouts on which a boundary is not found.
VecLayouts ==
    { <<"__begin_", "__end_", "__end_cap_">>,
      <<"__begin", "__end", "__end_cap">>,
      <<"_M_start", "__end_", "__end_cap_">>,
      <<"__begin_", "_M_finish", "__end_cap_">>,
      <<"_M_start", "_M_finish", "_M_end_of_storage">>,
      <<"__begin_", "__end_", "_M_end_of_storage">> }

BeginChoices ==
    {Pointer(a, es) : a \in VecAddrs, es \in ElemSizes} \cup {Scalar(4096)}

CompressedPair(p) == Struct(<<Kid("__value_", p)>>)

EndCapChoices(b) ==
    { Pointer(8240, b.esz), Pointer(0, b.esz), Pointer(8, b.esz),
      CompressedPair(Pointer(8240, b.esz)) }

VecInitCommon ==
    /\ nNodes = 0
    /\ tailLink = 0
    /\ prevMode = "none"
    /\ badNode = 0
    /\ pc = "call"
    /\ limit = 0
    /\ node = 0
    /\ count = 0
    /\ visited = {}
    /\ values = <<>>
    /\ doubly_linked = FALSE
    /\ cycle_detected = FALSE
    /\ truncated = FALSE
    /\ vec = NoVec
    /\ result = ""

InitVec ==
    /\ \E l \in VecLayouts, b \in BeginChoices, e \in VecAddrs :
        \E c \in EndCapChoices(b) :
          /\ valobj = Struct(<<Kid(l[1], b), Kid(l[2], Pointer(e, b.esz)), Kid(l[3], c)>>)
          /\ unreadable \in {{}, {b.raw + b.esz}}
    /\ max_items \in 0..MaxVecItems
    /\ use_colors \in BOOLEAN
    /\ VecInitCommon

SpecVec == InitVec /\ [][NextVec]_vars

-----------------------------------------------------------------------------
(* The encodings of the capacity boundary the provider is run on: every      *)
(* value of depth at most 2 whose members carry two of the wrapper names or  *)
(* a name that is no wrapper name.                                           *)

CapAddrs == {8208, 8240}
MemberNames == {"__value_", "__first_", "__alloc_"}

\* The member lists of at most two members, with distinct names, over S.
KidSeqs(S) ==
    {<<>>}
      \cup {<<Kid(n, v)>> : n \in MemberNames, v \in S}
      \cup {ks \in {<<Kid(n1, v1), Kid(n2, v2)>> :
                        n1 \in MemberNames, n2 \in MemberNames, v1 \in S, v2 \in S} :
               ks[1].name # ks[2].name}

CapLeaves == {Pointer(a, 8) : a \in CapAddrs} \cup {Scalar(0)}
CapInner == CapLeaves \cup {Struct(ks) : ks \in KidSeqs(CapLeaves)}
CapTrees == CapLeaves \cup {Struct(ks) : ks \in KidSeqs(CapInner)}

CapBeginChoices == {Pointer(8192, 8), Pointer(8192, 0), Pointer(8224, 8)}

InitCap ==
    /\ \E b \in CapBeginChoices :
         \/ \E c \in (IF b.esz > 0 THEN CapTrees ELSE CapLeaves) :
              valobj = Struct(<<Kid("__begin_", b), Kid("__end_", b), Kid("__end_cap_", c)>>)
         \/ \E c \in CapLeaves :
              valobj = Struct(<<Kid("__begin_", b), Kid("__end_cap_", c)>>)
    /\ unreadable = {}
    /\ max_items = MaxVecItems
    /\ use_colors = FALSE
    /\ VecInitCommon

SpecCap == InitCap /\ [][NextVec]_vars

-----------------------------------------------------------------------------
(* Properties of the linked traversal *)

HeadPtr == get_child_member_by_names(valobj, HeadNames)

\* The provider walked a chain: the head member resolved to the first node.
Walked == Truthy(HeadPtr) /\ HeadPtr.isPtr /\ HeadPtr.raw = NodeAddr(1)

\* The rendering expected of the i-th node of the chain.
ExpectedValue(i) == IF i = badNode THEN "[unavailable]" ELSE ToString(i)

MinOf(a, b) == IF a <= b THEN a ELSE b

\* C1: a traversal started at a non-null head visits at most maxItems + 1
\* nodes, emits at most that many values, and emits a value only for a node
\* whose address is not yet in the visited set, whatever the shape of the
\* chain (cycles and self-loops included).
C1_CycleSafety ==
    /\ [](/\ Cardinality(visited) <= max_items + 1
          /\ Len(values) <= max_items + 1)
    /\ [][Len(values') > Len(values) => /\ node \notin visited
                                        /\ Len(values') = Len(values) + 1]_vars

C1_Witness ==
    /\ pc = "done"
    /\ Walked
    /\ tailLink = nNodes
    /\ max_items > nNodes
    /\ cycle_detected
    /\ Cardinality(visited) = nNodes
    /\ Len(values) = nNodes

C3_NullHead ==
    (pc = "done" /\ Truthy(HeadPtr) /\ get_raw_pointer(HeadPtr) = 0)
        => /\ result = "size = 0, []"
           /\ values = <<>>
           /\ ~truncated
           /\ visited = {}
           /\ count = 0

C3_Witness ==
    /\ pc = "done"
    /\ Truthy(HeadPtr)
    /\ get_raw_pointer(HeadPtr) = 0
    /\ max_items = 3
    /\ use_colors
    /\ Truthy(get_child_member_by_names(valobj, SizeNames))
    /\ get_child_member_by_names(valobj, SizeNames).raw = 3
    /\ result = "size = 0, []"

\* C7: on an acyclic chain of n nodes the traversal emits the renderings of
\* the first min(n, maxItems) nodes in chain order, and truncated is true
\* exactly when n > maxItems; a walk that ended on a detected cycle is not
\* truncated. A 5-node chain with a cap of 3 gives the first 3 values,
\* truncated; the chain [1,2,3] with a cap of 10 gives <<"1","2","3">>, not
\* truncated.
C7_Truncation ==
    /\ (pc = "done" /\ Walked /\ tailLink \in {0, Absent})
         => /\ Len(values) = MinOf(nNodes, max_items)
            /\ \A i \in 1..Len(values) : values[i] = ExpectedValue(i)
            /\ truncated <=> (nNodes > max_items)
    /\ (pc = "done" /\ cycle_detected) => ~truncated
    /\ (pc = "done" /\ Walked /\ tailLink = 0 /\ badNode = 0
            /\ nNodes = 5 /\ max_items = 3)
         => (values = <<"1", "2", "3">> /\ truncated)
    /\ (pc = "done" /\ Walked /\ tailLink = 0 /\ badNode = 0
            /\ nNodes = 3 /\ max_items = 10 /\ prevMode = "none")
         => (values = <<"1", "2", "3">> /\ ~truncated /\ ~doubly_linked)

C7_Witness ==
    /\ pc = "done"
    /\ Walked
    /\ tailLink = 0
    /\ badNode = 0
    /\ nNodes = 5
    /\ max_items = 3
    /\ values = <<"1", "2", "3">>
    /\ truncated

-----------------------------------------------------------------------------
(* Properties of the vector provider *)

Summarized == pc = "done" /\ vec.kind = "summary"

\* C4 (as stated): logical_length is (end - begin) div element_size when
\* element_size > 0 and end >= begin, and 0 otherwise.
C4_Original ==
    Summarized
        => vec.size = IF vec.element_size > 0 /\ vec.end_addr >= vec.begin_addr
                      THEN (vec.end_addr - vec.begin_addr) \div vec.element_size
                      ELSE 0

\* C4 (amended): logical_length is (end - begin) div element_size when
\* element_size > 0, the begin address is not null and end >= begin, and 0
\* otherwise (end < begin, element_size = 0, or a null begin address); it is
\* never negative. begin = 0x1000, end = 0x1000 + 10*4, element_size = 4
\* gives 10.
C4_LogicalLength ==
    Summarized
        => /\ vec.size = IF /\ vec.element_size > 0
                            /\ vec.begin_addr # 0
                            /\ vec.end_addr >= vec.begin_addr
                         THEN (vec.end_addr - vec.begin_addr) \div vec.element_size
                         ELSE 0
           /\ vec.size >= 0
           /\ (vec.begin_addr = 4096 /\ vec.end_addr = 4096 + 10 * 4
                 /\ vec.element_size = 4) => vec.size = 10

C4_Witness ==
    /\ Summarized
    /\ vec.begin_addr = 4096
    /\ vec.end_addr = 4136
    /\ vec.element_size = 4
    /\ vec.size = 10

\* C5: capacity is a number only when element_size > 0 and the capacity-end
\* address is >= the begin address, and then it is (capEnd - begin) div
\* element_size; with the capacity boundary absent, element_size = 0 or
\* capEnd < begin it is unknown and rendered "capacity = ?". begin = 0x2000,
\* end = 0x2000 + 4*8, end_cap = 0x2000 + 6*8, element_size = 8 gives
\* logical_length 4 and capacity 6.
C5_Capacity ==
    Summarized
        => LET capEnd == vec.end_cap_ptr.raw
           IN  /\ vec.capacity.known
                    => /\ Truthy(vec.end_cap_ptr)
                       /\ vec.element_size > 0
                       /\ capEnd >= vec.begin_addr
                       /\ vec.capacity.value = (capEnd - vec.begin_addr) \div vec.element_size
                       /\ CapacityStr(vec.capacity) = "capacity = " \o ToString(vec.capacity.value)
               /\ (\/ ~Truthy(vec.end_cap_ptr)
                   \/ vec.element_size = 0
                   \/ capEnd < vec.begin_addr)
                    => (~vec.capacity.known /\ CapacityStr(vec.capacity) = "capacity = ?")
               /\ (vec.begin_addr = 8192 /\ vec.end_addr = 8192 + 4 * 8
                     /\ capEnd = 8192 + 6 * 8 /\ vec.element_size = 8)
                    => (vec.size = 4 /\ vec.capacity = [known |-> TRUE, value |-> 6])

C5_Witness ==
    /\ Summarized
    /\ vec.begin_addr = 8192
    /\ vec.end_addr = 8224
    /\ vec.end_cap_ptr.raw = 8240
    /\ vec.element_size = 8
    /\ vec.size = 4
    /\ vec.capacity.known
    /\ vec.capacity.value = 6

\* C6: the provider materializes exactly min(logical_length, maxItems)
\* elements, the i-th at begin + i*element_size in increasing i, one rendered
\* entry per element (a bracketed marker for an element that cannot be read),
\* and truncated holds exactly when logical_length > maxItems.
C6_Elements ==
    Summarized
        => /\ Len(values) = MinOf(vec.size, max_items)
           /\ Len(vec.addrs) = Len(values)
           /\ \A k \in 1..Len(values) :
                /\ vec.addrs[k] = vec.begin_addr + (k - 1) * vec.element_size
                /\ (vec.addrs[k] \in unreadable) <=> startswith_bracket(values[k])
           /\ truncated <=> (vec.size > max_items)

C6_Witness ==
    /\ Summarized
    /\ vec.size > max_items
    /\ max_items >= 2
    /\ truncated
    /\ Len(values) = max_items
    /\ startswith_bracket(values[2])
    /\ ~startswith_bracket(values[1])

BoundaryAbsent == ~Truthy(begin_ptr) \/ ~Truthy(end_ptr)

-----------------------------------------------------------------------------
(* Properties of the capacity unwrap *)

WrapperIdx == 1..Len(WrapperNames)
Wrapped(v, k) == GetChildMemberWithName(v, WrapperNames[k])

\* The k-th wrapper name names a pointer-typed member of v.
DirectHit(v, k) == Truthy(Wrapped(v, k)) /\ Wrapped(v, k).isPtr

\* The j-th wrapper name is the first that names a member of v.
FirstWrapped(v, j) ==
    /\ Truthy(Wrapped(v, j))
    /\ \A i \in 1..(j - 1) : ~Truthy(Wrapped(v, i))

\* The k-th wrapper name names a member of v that is no pointer and whose
\* first wrapper-named member is a pointer.
NestedHit(v, k) ==
    /\ Truthy(Wrapped(v, k))
    /\ ~Wrapped(v, k).isPtr
    /\ \E j \in WrapperIdx : FirstWrapped(Wrapped(v, k), j) /\ Wrapped(Wrapped(v, k), j).isPtr

NameHit(v, k) == DirectHit(v, k) \/ NestedHit(v, k)

NameResult(v, k) ==
    IF DirectHit(v, k) THEN Wrapped(v, k)
    ELSE Wrapped(Wrapped(v, k), CHOOSE j \in WrapperIdx : FirstWrapped(Wrapped(v, k), j))

PointerKids(v) == {i \in 1..Len(v.kids) : v.kids[i].val.valid /\ v.kids[i].val.isPtr}

FirstPointerKid(v) ==
    IF PointerKids(v) = {} THEN None
    ELSE v.kids[CHOOSE i \in PointerKids(v) : \A j \in PointerKids(v) : i <= j].val

\* The capacity the provider derives from an unwrapped pointer p.
CapacityFrom(p) ==
    IF Truthy(p) /\ p.raw # 0 /\ vec.element_size > 0 /\ p.raw >= vec.begin_addr
    THEN [known |-> TRUE, value |-> (p.raw - vec.begin_addr) \div vec.element_size]
    ELSE [known |-> FALSE, value |-> 0]

\* The unwrap order of the claim as stated: the value itself, then the
\* pointer-typed members under a wrapper name one level deep, then those two
\* levels deep, then the first pointer-typed member.
DirectHits(v) == {k \in WrapperIdx : DirectHit(v, k)}
DeepHits(v) ==
    {kj \in WrapperIdx \X WrapperIdx :
        /\ Truthy(Wrapped(v, kj[1]))
        /\ Truthy(Wrapped(Wrapped(v, kj[1]), kj[2]))
        /\ Wrapped(Wrapped(v, kj[1]), kj[2]).isPtr}
FirstDeepHit(v) ==
    CHOOSE kj \in DeepHits(v) :
        \A o \in DeepHits(v) : kj[1] < o[1] \/ (kj[1] = o[1] /\ kj[2] <= o[2])

LayeredUnwrap(v) ==
    IF ~Truthy(v) THEN None
    ELSE IF v.isPtr THEN v
    ELSE IF DirectHits(v) # {}
         THEN Wrapped(v, CHOOSE k \in DirectHits(v) : \A o \in DirectHits(v) : k <= o)
    ELSE IF DeepHits(v) # {}
         THEN Wrapped(Wrapped(v, FirstDeepHit(v)[1]), FirstDeepHit(v)[2])
    ELSE FirstPointerKid(v)

\* No member of v is a pointer, and a wrapper-named member of a wrapper-named
\* member is: the only pointers are two levels deep, in wrapper fields.
OnlyDepth2Pointer(v) ==
    /\ Truthy(v)
    /\ ~v.isPtr
    /\ PointerKids(v) = {}
    /\ DeepHits(v) # {}

\* C10 (as stated): the capacity boundary is unwrapped by the first success
\* of: the value itself if pointer-typed; a pointer-typed member under a
\* wrapper name one level deep; such a member two levels deep; the first
\* pointer-typed member. Every value whose only pointer-typed descendant is
\* two levels deep has that pointer recovered.
C10_Original ==
    Summarized
        => /\ vec.end_cap_ptr = LayeredUnwrap(end_cap_raw)
           /\ OnlyDepth2Pointer(end_cap_raw) => Truthy(vec.end_cap_ptr)

\* C10 (amended): the capacity boundary is unwrapped by the first success of:
\* the value itself if pointer-typed; then, for each wrapper name in order,
\* the member of that name if it is pointer-typed, else the first
\* wrapper-named member of that member if it is pointer-typed; then the
\* first pointer-typed direct member. Absence at every stage gives capacity
\* unknown, not an error. A pointer two levels deep is recovered when it is
\* the first wrapper-named member of a wrapper-named member, and then
\* capacity = (pointer - begin) div element_size under the guards of the
\* capacity computation.
C10_Unwrap ==
    Summarized
        => LET v == end_cap_raw
               r == vec.end_cap_ptr
           IN  /\ ~Truthy(v) => r = None
               /\ (Truthy(v) /\ v.isPtr) => r = v
               /\ (Truthy(v) /\ ~v.isPtr)
                    => /\ \A k \in WrapperIdx :
                            (NameHit(v, k) /\ \A i \in 1..(k - 1) : ~NameHit(v, i))
                                => r = NameResult(v, k)
                       /\ (\A k \in WrapperIdx : ~NameHit(v, k)) => r = FirstPointerKid(v)
               /\ Truthy(r) => r.isPtr
               /\ vec.capacity = CapacityFrom(r)
               /\ ~Truthy(r) => (~vec.capacity.known /\ result # VectorError)

C10_Witness ==
    /\ Summarized
    /\ end_cap_raw = Struct(<<Kid("__first_", Struct(<<Kid("__value_", Pointer(8240, 8))>>))>>)
    /\ vec.end_cap_ptr = Pointer(8240, 8)
    /\ vec.begin_addr = 8192
    /\ vec.element_size = 8
    /\ vec.capacity = [known |-> TRUE, value |-> 6]

====
